---- MODULE Spec2Model ----
(***************************************************************************)
(* A model of convert_movie.py: the "Convert Movie" window (its widgets,   *)
(* the global `sources` list and the handlers bound to the widgets), the   *)
(* worker thread convertThread and the external FFmpeg processes.          *)
(*                                                                         *)
(* The window is one record, `ui`; each handler of the script is an        *)
(* operator from a window record to a window record, so that a handler     *)
(* that calls other handlers (resetSettings, loadSettings, run) is the     *)
(* composition the code performs.  A step of the main thread runs one      *)
(* handler to completion (Maya runs UI callbacks, and the callbacks that   *)
(* a worker hands to maya.utils.executeInMainThreadWithResult, one at a    *)
(* time on the main thread).  A worker thread takes one step per blocking  *)
(* point of convertThread.                                                 *)
(*                                                                         *)
(* Text fields hold sequences of one-character strings, so that int(),     *)
(* str() and strip() are computed, not assumed.                            *)
(***************************************************************************)
EXTENDS Integers, Sequences, FiniteSets, TLC

VARIABLES
    ui,       \* the window: widgets' values and enable flags, `sources`
    jobs,     \* the worker threads started by convertMovie, with their process
    disk,     \* the settings files: the autosave file and the user's file
    dialog,   \* title of the modal dialog the last step showed ("" for none)
    probed,   \* the last step ran getMovieProperties (rewrote the log file)
    raised,   \* the exception that ended the last step's handler ("" for none)
    command,  \* the `cmd` the last step built and logged (NoCommand for none)
    py3       \* the host runs Python 3 (Maya 2022+), else Python 2

vars == <<ui, jobs, disk, dialog, probed, raised, command, py3>>

----------------------------------------------------------------------------
(* Bounds of the model *)

\* convertMovie is not taken once this many worker slots are occupied
MaxJobs == 2
\* onAddSource is not taken beyond this many sources
MaxSources == 2

----------------------------------------------------------------------------
(* Program constants *)

\* FILE_FORMATS
FILE_FORMATS ==
    << [name |-> "PNG",  extension |-> "png", is_movie |-> FALSE],
       [name |-> "JPEG", extension |-> "jpg", is_movie |-> FALSE],
       [name |-> "MP4",  extension |-> "mp4", is_movie |-> TRUE],
       [name |-> "AVI",  extension |-> "avi", is_movie |-> TRUE] >>

\* the item numDigitsMenu selects at construction and after resetSettings
DefaultNumDigits == 4

\* the item fileFormatMenu selects at construction and after resetSettings
DefaultFileFormat == 1

----------------------------------------------------------------------------
(* Python values *)

\* parseOutputSize returns None, False or a pair (w, h); json stores them as
\* null, false and [w, h]
NoneSize  == [tag |-> "None",  w |-> 0, h |-> 0]
FalseSize == [tag |-> "False", w |-> 0, h |-> 0]
Pair(w, h) == [tag |-> "Pair", w |-> w, h |-> h]

\* `if cs:` on a value json loaded
Truthy(cs) == cs.tag = "Pair"

DigitChars == <<"0", "1", "2", "3", "4", "5", "6", "7", "8", "9">>

IsDigit(c) == \E i \in 1..10 : DigitChars[i] = c

DigitVal(c) == (CHOOSE i \in 1..10 : DigitChars[i] = c) - 1

\* str.strip(): leading and trailing blanks removed
RECURSIVE lstrip(_)
lstrip(t) == IF t # <<>> /\ Head(t) = " " THEN lstrip(Tail(t)) ELSE t

RECURSIVE rstrip(_)
rstrip(t) ==
    IF t # <<>> /\ t[Len(t)] = " " THEN rstrip(SubSeq(t, 1, Len(t) - 1)) ELSE t

strip(t) == rstrip(lstrip(t))

RECURSIVE DigitsValue(_)
DigitsValue(ds) ==
    IF ds = <<>> THEN 0
    ELSE 10 * DigitsValue(SubSeq(ds, 1, Len(ds) - 1)) + DigitVal(ds[Len(ds)])

\* int(text): blanks around the literal are accepted, then an optional sign,
\* then one or more digits; anything else raises ValueError
int(t) ==
    LET s      == strip(t)
        signed == s # <<>> /\ Head(s) \in {"-", "+"}
        ds     == IF signed THEN Tail(s) ELSE s
        ok     == ds # <<>> /\ \A i \in 1..Len(ds) : IsDigit(ds[i])
    IN  [ok  |-> ok,
         val |-> IF ~ok THEN 0
                 ELSE IF signed /\ Head(s) = "-" THEN 0 - DigitsValue(ds)
                 ELSE DigitsValue(ds)]

RECURSIVE NatStr(_)
NatStr(n) ==
    IF n < 10 THEN <<DigitChars[n + 1]>>
    ELSE NatStr(n \div 10) \o <<DigitChars[(n % 10) + 1]>>

\* str(n) of an int
str(n) == IF n < 0 THEN <<"-">> \o NatStr(0 - n) ELSE NatStr(n)

\* int(round(num / den)) for den > 0: Python 2 rounds a half away from zero,
\* Python 3 rounds a half to the even neighbour
round(num, den) ==
    LET lo   == num \div den
        rem2 == 2 * (num - lo * den)
    IN  IF rem2 < den THEN lo
        ELSE IF rem2 > den THEN lo + 1
        ELSE IF py3 THEN (IF lo % 2 = 0 THEN lo ELSE lo + 1)
        ELSE IF num >= 0 THEN lo + 1 ELSE lo

\* int(round(w/2.0))*2, applied by the code to an odd w
RoundToEven(w) == round(w, 2) * 2

----------------------------------------------------------------------------
(* The environment: the file system and FFmpeg *)

\* isValidCommand(cmd): popen(cmd) does not raise OSError
isValidCommand(cmd) == cmd = "ffmpeg"

\* the input paths for which glob.glob(inputPathToGlob(path)) is non-empty
GlobMatches(path) ==
    path \in {"a.mp4", "b.mp4", "c.mp4", "d.mp4", "e.mp4", "f.mp4", "g.mp4"}

\* os.path.exists and os.path.isdir of an output directory text
PathExists(path) == path \in {"out", "notes.txt"}
IsDir(path) == path = "out"

\* A line of FFmpeg's diagnostic output, as getMovieProperties reads it:
\* video and audio are line.find('Video:') and line.find('Audio:') (-1 when
\* the marker is absent), dims the (\d+)x(\d+) match in the line once the
\* '[^0-9]0x' tokens are removed (<<>> for no match)
Line(video, dims, audio) == [video |-> video, dims |-> dims, audio |-> audio]

\* the lines of the log file after the probe of a path (fd.read().split('\n'))
ProbeLog(path) ==
    CASE path = "a.mp4" ->
           << Line(-1, <<>>, -1),
              Line(4, <<4, 2>>, -1),
              Line(4, <<>>, 4),
              Line(-1, <<>>, -1) >>
      [] path = "b.mp4" ->
           << Line(-1, <<>>, -1),
              Line(4, <<2, 2>>, -1),
              Line(-1, <<>>, -1) >>
      [] path = "d.mp4" ->     \* the stream line is the first line of the log
           << Line(4, <<6, 4>>, -1),
              Line(-1, <<>>, -1) >>
      [] path = "e.mp4" ->     \* a line that starts with 'Video:'
           << Line(-1, <<>>, -1),
              Line(0, <<6, 4>>, -1),
              Line(-1, <<>>, -1) >>
      [] path = "f.mp4" ->     \* a line that starts with 'Audio:'
           << Line(-1, <<>>, -1),
              Line(4, <<2, 2>>, -1),
              Line(-1, <<>>, 0),
              Line(-1, <<>>, -1) >>
      [] path = "g.mp4" ->     \* several 'Video:' lines, one without a size
           << Line(-1, <<>>, -1),
              Line(4, <<2, 2>>, -1),
              Line(4, <<6, 4>>, 9),
              Line(4, <<>>, -1),
              Line(-1, <<>>, -1) >>
      [] OTHER ->
           << Line(-1, <<>>, -1), Line(-1, <<>>, -1) >>

\* the exit code of the probe process (p.wait())
ProbeExit(path) == IF GlobMatches(path) THEN 0 ELSE 1

----------------------------------------------------------------------------
(* Property probe *)

\* `if w % 2 != 0: w = int(round(w/2.0))*2`
NormalizeEven(w) == IF w % 2 # 0 THEN RoundToEven(w) ELSE w

\* the loop of getMovieProperties over lines[len(lines)-1] .. lines[1]
\* (0-based): i is the 1-based index of the line looked at next
RECURSIVE ScanLines(_, _, _, _)
ScanLines(lines, i, size, hasAudioStream) ==
    IF i < 2 \/ (size # NoneSize /\ hasAudioStream)
    THEN [size |-> size, hasAudioStream |-> hasAudioStream]
    ELSE LET line == lines[i]
             found == size = NoneSize /\ line.video > 0 /\ line.dims # <<>>
         IN  ScanLines(lines, i - 1,
                 IF found
                 THEN Pair(NormalizeEven(line.dims[1]), NormalizeEven(line.dims[2]))
                 ELSE size,
                 hasAudioStream \/ line.audio > 0)

\* getMovieProperties(ffmpegCommand, inputMoviePath): ok is FALSE when it raises
getMovieProperties(inputMoviePath) ==
    LET r == ScanLines(ProbeLog(inputMoviePath), Len(ProbeLog(inputMoviePath)),
                       NoneSize, FALSE)
    IN  IF ProbeExit(inputMoviePath) # 0 \/ r.size = NoneSize
        THEN [ok |-> FALSE, w |-> 0, h |-> 0, hasAudioStream |-> FALSE]
        ELSE [ok |-> TRUE, w |-> r.size.w, h |-> r.size.h,
              hasAudioStream |-> r.hasAudioStream]

----------------------------------------------------------------------------
(* The source list *)

\* the dict setNumSources appends: the widgets of a row are created enabled,
\* and the dict has no 'size' and no 'hasAudioStream' key yet.  A missing
\* 'size' reads as None everywhere ('size' in source and ... is not None).
NewSource ==
    [input          |-> "",
     size           |-> NoneSize,
     hasAudioStream |-> "missing",
     inputEnabled   |-> TRUE,
     browseEnabled  |-> TRUE,
     moveUpEnabled  |-> TRUE,
     moveDownEnabled |-> TRUE,
     deleteEnabled  |-> TRUE]

\* fail(source) of readInputMovieProperties
fail(source) == [source EXCEPT !.size = NoneSize, !.hasAudioStream = "None"]

\* readInputMovieProperties reaches its call of getMovieProperties
RunsProbe(s, i) ==
    /\ isValidCommand(s.ffmpegTextField)
    /\ s.sources[i].input # ""
    /\ GlobMatches(s.sources[i].input)

readInputMovieProperties(s, i) ==
    LET source == s.sources[i]
        r      == getMovieProperties(source.input)
    IN  IF ~RunsProbe(s, i) \/ ~r.ok
        THEN [s EXCEPT !.sources[i] = fail(source)]
        ELSE [s EXCEPT !.sources[i] =
                         [source EXCEPT !.size = Pair(r.w, r.h),
                                        !.hasAudioStream =
                                            IF r.hasAudioStream THEN "True" ELSE "False"],
                       !.keepProportionsCheckBox.enable = TRUE]

RECURSIVE readAll(_, _)
\* `for source in sources: readInputMovieProperties(sourceKey)` from source i on
readAll(s, i) ==
    IF i > Len(s.sources) THEN s ELSE readAll(readInputMovieProperties(s, i), i + 1)

Max(S) == CHOOSE x \in S : \A y \in S : y <= x

getDefaultOutputMovieSize(s) ==
    LET known     == {i \in 1..Len(s.sources) : s.sources[i].size # NoneSize}
        maxWidth  == Max({s.sources[i].size.w : i \in known} \cup {0})
        maxHeight == Max({s.sources[i].size.h : i \in known} \cup {0})
    IN  IF maxWidth = 0 \/ maxHeight = 0 THEN NoneSize ELSE Pair(maxWidth, maxHeight)

resetOutputMovieSize(s) ==
    LET size == getDefaultOutputMovieSize(s)
    IN  IF size # NoneSize
        THEN [s EXCEPT !.widthTextField.text = str(size.w),
                       !.heightTextField.text = str(size.h),
                       !.keepProportionsCheckBox.enable = TRUE]
        ELSE [s EXCEPT !.widthTextField.text = <<>>,
                       !.heightTextField.text = <<>>,
                       !.keepProportionsCheckBox.enable = FALSE]

updateSourcesLayout(s) ==
    LET n == Len(s.sources)
    IN  [s EXCEPT !.sources =
            [i \in 1..n |->
                [s.sources[i] EXCEPT !.moveUpEnabled   = i > 1,
                                     !.moveDownEnabled = i < n,
                                     !.deleteEnabled   = n > 1]]]

setNumSources(s, n) ==
    LET m == Len(s.sources)
    IN  updateSourcesLayout(
            [s EXCEPT !.sources =
                IF m > n THEN SubSeq(s.sources, 1, n)
                ELSE s.sources \o [i \in 1..(n - m) |-> NewSource]])

onAddSource(s) == setNumSources(s, Len(s.sources) + 1)

onMoveUp(s, i) ==
    updateSourcesLayout(
        IF i > 1
        THEN [s EXCEPT !.sources[i - 1] = s.sources[i], !.sources[i] = s.sources[i - 1]]
        ELSE s)

onMoveDown(s, i) ==
    updateSourcesLayout(
        IF i < Len(s.sources)
        THEN [s EXCEPT !.sources[i + 1] = s.sources[i], !.sources[i] = s.sources[i + 1]]
        ELSE s)

onDelete(s, i) ==
    updateSourcesLayout(
        [s EXCEPT !.sources =
            SubSeq(s.sources, 1, i - 1) \o SubSeq(s.sources, i + 1, Len(s.sources))])

onInputTextFieldChanged(s, i) ==
    resetOutputMovieSize(readInputMovieProperties(s, i))

\* browseInput, once the dialog returned `path`
browseInput(s, i, path) ==
    onInputTextFieldChanged([s EXCEPT !.sources[i].input = path], i)

----------------------------------------------------------------------------
(* Output options *)

onWidthChanged(s) ==
    LET r == int(s.widthTextField.text)
        w == NormalizeEven(r.val)
        s1 == IF r.val % 2 # 0 THEN [s EXCEPT !.widthTextField.text = str(w)] ELSE s
        size == getDefaultOutputMovieSize(s)
    IN  IF ~r.ok THEN s
        ELSE IF size # NoneSize /\ s.keepProportionsCheckBox.value
        THEN [s1 EXCEPT !.heightTextField.text = str(round(size.h * w, size.w * 2) * 2)]
        ELSE s1

onHeightChanged(s) ==
    LET r == int(s.heightTextField.text)
        h == NormalizeEven(r.val)
        s1 == IF r.val % 2 # 0 THEN [s EXCEPT !.heightTextField.text = str(h)] ELSE s
        size == getDefaultOutputMovieSize(s)
    IN  IF ~r.ok THEN s
        ELSE IF size # NoneSize /\ s.keepProportionsCheckBox.value
        THEN [s1 EXCEPT !.widthTextField.text = str(round(size.w * h, size.h * 2) * 2)]
        ELSE s1

updateUIForFileFormat(s) ==
    [s EXCEPT !.numDigitsMenu.enable = ~FILE_FORMATS[s.fileFormatMenu.select].is_movie]

parseOutputSize(s) ==
    LET widthValue  == strip(s.widthTextField.text)
        heightValue == strip(s.heightTextField.text)
    IN  IF Len(widthValue) = 0 \/ Len(heightValue) = 0 THEN NoneSize
        ELSE IF ~int(widthValue).ok \/ ~int(heightValue).ok THEN FalseSize
        ELSE Pair(int(widthValue).val, int(heightValue).val)

setEditableUIEnabled(s, enabled) ==
    LET s1 == [s EXCEPT
                 !.convertButton = IF enabled
                                   THEN [label |-> "Convert", cancelJob |-> 0]
                                   ELSE @,
                 !.addSourceButton = enabled,
                 !.sources = [i \in 1..Len(s.sources) |->
                                 [s.sources[i] EXCEPT !.browseEnabled   = enabled,
                                                      !.inputEnabled    = enabled,
                                                      !.moveUpEnabled   = enabled,
                                                      !.moveDownEnabled = enabled,
                                                      !.deleteEnabled   = enabled]],
                 !.osRadioGroup = enabled,
                 !.browseFFMpegButton = enabled,
                 !.browseOutputButton = enabled,
                 !.outputTextField.enable = enabled,
                 !.widthTextField.enable = enabled,
                 !.heightTextField.enable = enabled,
                 !.keepProportionsCheckBox.enable = enabled,
                 !.outputFileNameTextField.enable = enabled,
                 !.numDigitsMenu.enable = enabled,
                 !.fileFormatMenu.enable = enabled]
    IN  IF enabled THEN updateUIForFileFormat(s1) ELSE s1

----------------------------------------------------------------------------
(* Settings files *)

SettingsKeys ==
    {"inputSources", "outputDirectory", "outputSize", "keepProportions",
     "outputFileName", "frameNumDigits", "fileFormat"}

\* A settings file: `keys` are the keys of the JSON object in it.  A path
\* with no file, and a file json.load rejects, change nothing in loadSettings:
\* both are files with no keys.  NoFile does not exist (os.path.exists).
SettingsFile(exists, keys, inputSources, outputDirectory, outputSize, keepProportions, outputFileName, frameNumDigits, fileFormat) ==
    [exists          |-> exists,
     keys            |-> keys,
     inputSources    |-> inputSources,
     outputDirectory |-> outputDirectory,
     outputSize      |-> outputSize,
     keepProportions |-> keepProportions,
     outputFileName  |-> outputFileName,
     frameNumDigits  |-> frameNumDigits,
     fileFormat      |-> fileFormat]

NoFile == SettingsFile(FALSE, {}, <<>>, "", NoneSize, TRUE, <<>>, 4, "PNG")

\* what saveSettings(jsonPath) writes to jsonPath
saveSettings(s) ==
    SettingsFile(TRUE, SettingsKeys,
                 [i \in 1..Len(s.sources) |-> s.sources[i].input],
                 s.outputTextField.text,
                 parseOutputSize(s),
                 s.keepProportionsCheckBox.value,
                 strip(s.outputFileNameTextField.text),
                 s.numDigitsMenu.select,
                 FILE_FORMATS[s.fileFormatMenu.select].name)

\* list(map(lambda opt: opt.name, FILE_FORMATS)).index(name)+1, 0 for ValueError
FormatIndex(name) ==
    IF \E i \in 1..Len(FILE_FORMATS) : FILE_FORMATS[i].name = name
    THEN CHOOSE i \in 1..Len(FILE_FORMATS) : FILE_FORMATS[i].name = name
    ELSE 0

\* loadSettings, lines 189-203: the 'inputSources' key
loadInputSources(s, f) ==
    LET n  == Len(f.inputSources)
        s1 == setNumSources(s, n)
        s2 == [s1 EXCEPT !.sources =
                  [i \in 1..n |-> [s1.sources[i] EXCEPT !.input = f.inputSources[i]]]]
    IN  updateSourcesLayout(readAll(s2, 1))

\* loadSettings(jsonPath) with f the file at jsonPath
loadSettings(s, f) ==
    LET s1 == IF "inputSources" \in f.keys THEN loadInputSources(s, f) ELSE s
        fileFormat == "fileFormat" \in f.keys /\ FormatIndex(f.fileFormat) # 0
        cs == "outputSize" \in f.keys /\ Truthy(f.outputSize)
        s2 == [s1 EXCEPT
                 !.outputTextField.text =
                     IF "outputDirectory" \in f.keys THEN f.outputDirectory ELSE @,
                 !.outputFileNameTextField.text =
                     IF "outputFileName" \in f.keys THEN f.outputFileName ELSE @,
                 !.numDigitsMenu.select =
                     IF "frameNumDigits" \in f.keys THEN f.frameNumDigits ELSE @,
                 !.fileFormatMenu.select =
                     IF fileFormat THEN FormatIndex(f.fileFormat) ELSE @,
                 !.widthTextField.text = IF cs THEN str(f.outputSize.w) ELSE @,
                 !.heightTextField.text = IF cs THEN str(f.outputSize.h) ELSE @,
                 !.keepProportionsCheckBox.value =
                     IF "keepProportions" \in f.keys THEN f.keepProportions ELSE @]
    IN  IF fileFormat THEN updateUIForFileFormat(s2) ELSE s2

\* loadSettings calls getMovieProperties for some source
loadProbes(s, f) ==
    /\ "inputSources" \in f.keys
    /\ isValidCommand(s.ffmpegTextField)
    /\ \E i \in 1..Len(f.inputSources) :
           f.inputSources[i] # "" /\ GlobMatches(f.inputSources[i])

resetSettings(s) ==
    LET s1 == setNumSources(setNumSources(s, 0), 1)
    IN  resetOutputMovieSize(
            [s1 EXCEPT !.outputTextField.text = "",
                       !.outputFileNameTextField.text = <<>>,
                       !.numDigitsMenu.select = DefaultNumDigits,
                       !.fileFormatMenu.select = DefaultFileFormat,
                       !.widthTextField.text = <<>>,
                       !.heightTextField.text = <<>>,
                       !.keepProportionsCheckBox.value = TRUE])

----------------------------------------------------------------------------
(* FFmpeg selection *)

\* checkFFMpeg: the sources are probed again when the command is valid
checkFFMpeg(s) ==
    IF isValidCommand(s.ffmpegTextField)
    THEN resetOutputMovieSize(readAll(s, 1))
    ELSE s

checkFFMpegDialog(s) ==
    IF isValidCommand(s.ffmpegTextField) THEN "" ELSE "Error: FFmpeg not found"

\* browseFFMpeg, once the dialog returned `path`
browseFFMpeg(s, path) == checkFFMpeg([s EXCEPT !.ffmpegTextField = path])

----------------------------------------------------------------------------
(* The conversion: validation, terminal callbacks *)

\* the outputLog scrollField holds the texts appended since it was cleared
LogEntry(kind, j) == [kind |-> kind, job |-> j]

appendToLog(s, entry) == [s EXCEPT !.outputLog = Append(@, entry)]

endWithSuccess(s) == setEditableUIEnabled(s, TRUE)

endWithCancel(s) == setEditableUIEnabled(s, TRUE)

endWithFailure(s) == setEditableUIEnabled(s, TRUE)

\* the loop of convertMovie over the sources, from source i on: "" when it
\* completes, "KeyError" when source['hasAudioStream'] raises, else the
\* title of the dialog shown before the return
RECURSIVE checkSources(_, _)
checkSources(s, i) ==
    IF i > Len(s.sources) THEN ""
    ELSE IF s.sources[i].hasAudioStream = "missing" THEN "KeyError"
    ELSE IF s.sources[i].input = "" \/ ~GlobMatches(s.sources[i].input)
    THEN "Error: Invalid input movie path"
    ELSE checkSources(s, i + 1)

\* how convertMovie leaves before saveSettings: "" when it does not (the
\* conversion starts), "KeyError" for the exception, else the dialog's title
convertMovieRefusal(s) ==
    IF ~isValidCommand(s.ffmpegTextField) THEN "Error: FFmpeg not found"
    ELSE IF checkSources(s, 1) # "" THEN checkSources(s, 1)
    ELSE IF s.outputTextField.text = "" THEN "Error: Missing output directory"
    ELSE IF ~PathExists(s.outputTextField.text)
    THEN "Error: Invalid output directory path"
    ELSE IF ~IsDir(s.outputTextField.text)
    THEN "Error: Invalid output directory path"
    ELSE IF parseOutputSize(s) = FalseSize THEN "Error: Invalid width/height"
    ELSE IF Len(strip(s.outputFileNameTextField.text)) = 0
    THEN "Error: Missing file name"
    ELSE ""

\* the arguments convertMovie passes to convertThread
threadArgs(s) ==
    [ffmpegCommand  |-> s.ffmpegTextField,
     inputSources   |-> [i \in 1..Len(s.sources) |->
                            [input |-> s.sources[i].input,
                             hasAudioStream |-> s.sources[i].hasAudioStream = "True"]],
     outputDir      |-> s.outputTextField.text,
     outputSize     |-> parseOutputSize(s),
     outputFileName |-> strip(s.outputFileNameTextField.text),
     frameNumDigits |-> s.numDigitsMenu.select,
     fileExtension  |-> FILE_FORMATS[s.fileFormatMenu.select].extension]

\* the window after lines 844-848 of convertMovie, for the job in slot j
startedUI(s, j) ==
    [setEditableUIEnabled(s, FALSE) EXCEPT
        !.outputLog = <<>>,
        !.convertButton = [label |-> "Cancel", cancelJob |-> j]]

----------------------------------------------------------------------------
(* Worker threads and processes *)

NoArgs ==
    [ffmpegCommand  |-> "",
     inputSources   |-> <<>>,
     outputDir      |-> "",
     outputSize     |-> NoneSize,
     outputFileName |-> <<>>,
     frameNumDigits |-> 0,
     fileExtension  |-> ""]

\* A slot of `jobs`.  pc is the place of the thread in convertThread:
\*   "free"      no thread
\*   "start"     created by convertMovie, convertThread not yet entered
\*   "poll"      in the `while True` loop, before `if cancelEvent.is_set()`
\*   "report"    after appendToLog(logMsg), before endWithSuccess/endWithFailure
\*   "terminate" after endWithCancel returned, before p.terminate()
\*   "gone"      the thread returned; its process was asked to terminate and
\*               has not died yet
\*   "crashed"   the thread ended with an exception, no callback was run
\* proc is the process p: "none", "alive", "terminating" (alive, SIGTERM
\* sent), "exited" (result is the exit code).  args are the arguments of
\* convertThread, kept until the command is built.
Job(pc, cancelEvent, proc, result, args) ==
    [pc |-> pc, cancelEvent |-> cancelEvent, proc |-> proc, result |-> result,
     args |-> args]

FreeJob == Job("free", FALSE, "none", 0, NoArgs)

\* building the filter graph raises TypeError: outputSize[0] with outputSize None
buildRaises(args) == args.outputSize = NoneSize

\* pollBranch with p.poll() looked at before the cancel event
pollBranchExitFirst(job) ==
    IF job.proc = "exited" THEN "exit"
    ELSE IF job.cancelEvent THEN "cancel"
    ELSE "sleep"

\* what one pass of the `while True` loop of convertThread does
pollBranch(job) ==
    IF job.cancelEvent THEN "cancel"
    ELSE IF job.proc = "exited" THEN "exit"
    ELSE "sleep"

\* terminalCallback with the exit code ignored
terminalCallbackAlwaysSuccess(result) == "success"

\* the callback run for exit code `result`
terminalCallback(result) == IF result = 0 THEN "success" ELSE "failure"

terminalDialog(outcome) ==
    IF outcome = "success" THEN "Conversion successful"
    ELSE "Error: Conversion failed"

ProcAlive(job) == job.proc \in {"alive", "terminating"}

FreeSlots == {j \in 1..MaxJobs : jobs[j].pc = "free"}

----------------------------------------------------------------------------
(* The command convertThread builds: lines 683-744 *)

\* isFileExtensionForMovie(fileExtension)
isFileExtensionForMovie(fileExtension) ==
    LET k == CHOOSE i \in 1..Len(FILE_FORMATS) :
                 FILE_FORMATS[i].extension = fileExtension
    IN  FILE_FORMATS[k].is_movie

\* hasAudioStream of the job without the test of the file extension
jobHasAudioStreamAnyFormat(args) ==
    \E i \in 1..Len(args.inputSources) : args.inputSources[i].hasAudioStream

\* hasAudioStream of the job, lines 683-688
jobHasAudioStream(args) ==
    /\ isFileExtensionForMovie(args.fileExtension)
    /\ \E i \in 1..Len(args.inputSources) : args.inputSources[i].hasAudioStream

\* needNullAudioSrc, lines 689-694
needNullAudioSrc(args) ==
    /\ jobHasAudioStream(args)
    /\ \E i \in 1..Len(args.inputSources) : ~args.inputSources[i].hasAudioStream

\* One input of the command: '-i', path, or the silence generator
\* '-f', 'lavfi', '-t', '0.1', '-i', 'anullsrc'.  FFmpeg numbers the inputs
\* from 0 in the order of the command: the input at place k has index k - 1.
FileInput(path) == [lavfi |-> FALSE, duration |-> "", path |-> path]
NullAudioInput == [lavfi |-> TRUE, duration |-> "0.1", path |-> "anullsrc"]

\* lines 695-700
commandInputs(args) ==
    [i \in 1..Len(args.inputSources) |-> FileInput(args.inputSources[i].input)]
    \o (IF needNullAudioSrc(args) THEN <<NullAudioInput>> ELSE <<>>)

\* nullAudioSrcIndex as the place of the last source
nullAudioSrcIndexOfLastSource(args) == Len(args.inputSources) - 1

\* nullAudioSrcIndex = len(inputSources)
nullAudioSrcIndex(args) == Len(args.inputSources)

\* A label of the filter graph, '[...]': the text between the brackets is
\* the digits of `idx` and the characters of `name` ('[0:v]', '[vs0]', '[v]')
Label(idx, name) == [idx |-> idx, name |-> name]
InputVideo(srcIndex) == Label(str(srcIndex), <<":", "v">>)
InputAudio(srcIndex) == Label(str(srcIndex), <<":", "a">>)
ScaledZero(srcIndex) == Label(str(0), <<"v", "s">>)
Scaled(srcIndex) == Label(str(srcIndex), <<"v", "s">>)
Named(name) == Label(<<>>, name)

\* A clause of the filter graph: its input labels, the filter with its
\* parameters, its output labels
Clause(ins, filter, params, outs) ==
    [ins |-> ins, filter |-> filter, params |-> params, outs |-> outs]

\* 'scale={}:{},setsar=1:1' and 'scale={}:{}'
ScaleParams(outputSize, setsar) ==
    [w |-> str(outputSize.w), h |-> str(outputSize.h), setsar |-> setsar,
     n |-> <<>>, v |-> "", a |-> ""]
\* 'concat=n={}:v=1:a=1' and 'concat=n={}:v=1:a=0'
ConcatParams(n, a) ==
    [w |-> <<>>, h |-> <<>>, setsar |-> FALSE, n |-> str(n), v |-> "1", a |-> a]
\* 'null' and 'format=yuv420p'
NoParams == [w |-> <<>>, h |-> <<>>, setsar |-> FALSE, n |-> <<>>, v |-> "", a |-> ""]

\* the labels before 'concat=' of the concat clause, lines 709-715
RECURSIVE concatInputs(_, _)
concatInputs(args, k) ==
    IF k = 0 THEN <<>>
    ELSE LET srcIndex == k - 1
             audioStreamIndex == IF args.inputSources[k].hasAudioStream
                                 THEN srcIndex ELSE nullAudioSrcIndex(args)
         IN  concatInputs(args, k - 1)
             \o (IF jobHasAudioStream(args)
                 THEN <<Scaled(srcIndex), InputAudio(audioStreamIndex)>>
                 ELSE <<Scaled(srcIndex)>>)

\* the labels after the filter of the concat clause: '[v] [a]' or '[v]'
concatOutputs(args) ==
    IF jobHasAudioStream(args) THEN <<Named(<<"v">>), Named(<<"a">>)>>
    ELSE <<Named(<<"v">>)>>

\* filterGraph before the `if fileExtension == 'mp4'` of line 727
sourcesGraph(args) ==
    LET n == Len(args.inputSources)
    IN  IF n > 1
        THEN [k \in 1..n |->
                 Clause(<<InputVideo(k - 1)>>, "scale",
                        ScaleParams(args.outputSize, TRUE), <<Scaled(k - 1)>>)]
             \o <<Clause(concatInputs(args, n), "concat",
                         ConcatParams(n, IF jobHasAudioStream(args) THEN "1" ELSE "0"),
                         concatOutputs(args))>>
        ELSE <<Clause(<<InputVideo(0)>>, "scale",
                      ScaleParams(args.outputSize, FALSE), <<Named(<<"v">>)>>)>>
             \o (IF jobHasAudioStream(args)
                 THEN <<Clause(<<InputAudio(0)>>, "null", NoParams, <<Named(<<"a">>)>>)>>
                 ELSE <<>>)

\* videoIn when the command's -map is written: 'v', or 'v' + 'v' for mp4
videoIn(args) ==
    IF args.fileExtension = "mp4" THEN <<"v">> \o <<"v">> ELSE <<"v">>

\* audioIn: 'a' when the job has audio (else None, and it is not used)
audioIn(args) == <<"a">>

\* filterGraph as joined into the -filter_complex argument, lines 703-730
filterGraph(args) ==
    sourcesGraph(args)
    \o (IF args.fileExtension = "mp4"
        THEN <<Clause(<<Named(<<"v">>)>>, "format=yuv420p", NoParams,
                      <<Named(videoIn(args))>>)>>
        ELSE <<>>)

\* the labels of the '-map' arguments, lines 733-735
commandMaps(args) ==
    <<Named(videoIn(args))>>
    \o (IF jobHasAudioStream(args) THEN <<Named(audioIn(args))>> ELSE <<>>)

\* encoderArgs with the branch of avi taken for every format
encoderArgsRawVideo(args) == <<"-c:v", "rawvideo", "-pix_fmt", "yuv420p">>

\* the encoder arguments before the output path, lines 736-741
encoderArgs(args) ==
    IF args.fileExtension = "mp4"
    THEN <<"-c:v", "libx264", "-c:a", "aac", "-movflags", "+faststart">>
    ELSE IF args.fileExtension = "avi"
    THEN <<"-c:v", "rawvideo", "-pix_fmt", "yuv420p">>
    ELSE <<>>

\* os.path.join(outputDir, name): the pieces of the path
join(outputDir, name) ==
    IF name # <<>> /\ name[1] = "/" THEN name
    ELSE <<outputDir, "/">> \o name

\* outputPath with the digit count left out of the pattern ('%d')
outputPathPlainCounter(args) ==
    IF args.fileExtension \in {"mp4", "avi"}
    THEN join(args.outputDir, args.outputFileName \o <<".", args.fileExtension>>)
    ELSE join(args.outputDir,
              args.outputFileName \o <<".", "%", "d", ".", args.fileExtension>>)

\* the last argument of the command, lines 737-743
outputPath(args) ==
    IF args.fileExtension \in {"mp4", "avi"}
    THEN join(args.outputDir, args.outputFileName \o <<".", args.fileExtension>>)
    ELSE join(args.outputDir,
              args.outputFileName \o <<".", "%">> \o str(args.frameNumDigits)
              \o <<"d", ".", args.fileExtension>>)

\* the value of `cmd` before no command was built
NoCommand ==
    [program |-> "", inputs |-> <<>>, filterGraph |-> <<>>, vsync |-> FALSE,
     maps |-> <<>>, encoder |-> <<>>, output |-> <<>>]

\* `cmd` at line 744, in the order of its arguments: the program with
\* '-nostdin -y', the inputs, '-filter_complex' with the graph, '-vsync 2',
\* the '-map's, the encoder arguments, the output path
buildCommand(args) ==
    [program     |-> args.ffmpegCommand,
     inputs      |-> commandInputs(args),
     filterGraph |-> filterGraph(args),
     vsync       |-> Len(args.inputSources) > 1,
     maps        |-> commandMaps(args),
     encoder     |-> encoderArgs(args),
     output      |-> outputPath(args)]

----------------------------------------------------------------------------
(* Inputs *)

\* the commands the FFmpeg text field is given
FFmpegCommands == {"ffmpeg", "nope"}

\* the paths typed or browsed into an input field
InputPaths == {"", "a.mp4"}

\* the paths given to an input field where the sizes of the sources matter
GivenPaths == {"", "a.mp4", "b.mp4", "c.mp4"}

\* the sources given to the command builder: one with audio, one without
BuildPaths == {"a.mp4", "b.mp4"}

\* the files whose probe logs differ in where the markers stand
ProbePaths == {"a.mp4", "b.mp4", "c.mp4", "d.mp4", "e.mp4", "f.mp4", "g.mp4"}

\* the items of the frame digits menu: '1', '2', '3', '4'
NumDigitsItems == 4

\* the texts typed into the width and height fields
SizeTexts == {<<>>, <<"x">>, <<"3">>, <<" ", "5">>, <<"1", "0">>}

\* the texts typed into the output directory field
OutputDirs == {"", "out", "notes.txt", "nowhere"}

\* the texts typed into the file name field
FileNames == {<<>>, <<"o">>}

\* a file a session of the script wrote: one source, MP4, 4x2
SavedFile ==
    SettingsFile(TRUE, SettingsKeys, <<"a.mp4">>, "out", Pair(4, 2), TRUE,
                 <<"o">>, 4, "MP4")

\* a settings file that names a size only
SizeFile ==
    SettingsFile(TRUE, {"outputSize"}, <<>>, "", Pair(3, 5), TRUE, <<>>, 4, "PNG")

\* the files Settings > Open... is pointed at, besides the one Save As... wrote
ExternalFiles == {SavedFile, SizeFile}

\* the autosave file found at launch
LaunchAutosaves == {NoFile, SavedFile}

----------------------------------------------------------------------------
(* run() *)

\* the window as run() builds it, before cmds.showWindow
construct(cmd) ==
    setNumSources(
        [sources                 |-> <<>>,
         addSourceButton         |-> TRUE,
         osRadioGroup            |-> TRUE,
         browseFFMpegButton      |-> TRUE,
         browseOutputButton      |-> TRUE,
         ffmpegTextField         |-> cmd,
         outputTextField         |-> [text |-> "", enable |-> TRUE],
         outputFileNameTextField |-> [text |-> <<"f", "r", "a", "m", "e">>,
                                      enable |-> TRUE],
         numDigitsMenu           |-> [select |-> DefaultNumDigits, enable |-> TRUE],
         fileFormatMenu          |-> [select |-> DefaultFileFormat, enable |-> TRUE],
         widthTextField          |-> [text |-> <<>>, enable |-> TRUE],
         heightTextField         |-> [text |-> <<>>, enable |-> TRUE],
         keepProportionsCheckBox |-> [value |-> TRUE, enable |-> TRUE],
         outputLog               |-> <<>>,
         convertButton           |-> [label |-> "Convert", cancelJob |-> 0]],
        1)

\* run(): the window, checkFFMpeg(), then the autosave file when it exists
run(cmd, f) ==
    LET s == checkFFMpeg(construct(cmd))
    IN  IF f.exists THEN loadSettings(s, f) ELSE s

Init ==
    /\ py3 \in BOOLEAN
    /\ \E f \in LaunchAutosaves :
          /\ ui = run("ffmpeg", f)
          /\ disk = [autosave |-> f, user |-> NoFile]
          /\ probed = (f.exists /\ loadProbes(checkFFMpeg(construct("ffmpeg")), f))
    /\ dialog = checkFFMpegDialog(construct("ffmpeg"))
    /\ raised = ""
    /\ command = NoCommand
    /\ jobs = [j \in 1..MaxJobs |-> FreeJob]

----------------------------------------------------------------------------
(* Steps of the main thread: one handler each *)

\* the step of a handler that touches the window only: s is the window it
\* leaves, d the dialog it showed, p whether it probed
Handler(s, d, p) ==
    /\ ui' = s
    /\ dialog' = d
    /\ probed' = p
    /\ raised' = ""
    /\ command' = NoCommand
    /\ UNCHANGED <<jobs, disk, py3>>

\* a step that shows no dialog, probes nothing and raises nothing
Quiet ==
    /\ dialog' = ""
    /\ probed' = FALSE
    /\ raised' = ""
    /\ command' = NoCommand
    /\ py3' = py3

AddSource ==
    /\ ui.addSourceButton
    /\ Len(ui.sources) < MaxSources
    /\ Handler(onAddSource(ui), "", FALSE)

Delete(i) ==
    /\ ui.sources[i].deleteEnabled
    /\ Handler(onDelete(ui, i), "", FALSE)

MoveUp(i) ==
    /\ ui.sources[i].moveUpEnabled
    /\ Handler(onMoveUp(ui, i), "", FALSE)

MoveDown(i) ==
    /\ ui.sources[i].moveDownEnabled
    /\ Handler(onMoveDown(ui, i), "", FALSE)

\* the user types `path` into the input field of source i
EditInput(i, path) ==
    /\ ui.sources[i].inputEnabled
    /\ LET s == [ui EXCEPT !.sources[i].input = path]
       IN  Handler(onInputTextFieldChanged(s, i), "", RunsProbe(s, i))

\* the user picks the existing file `path` in the dialog of browseInput
BrowseInput(i, path) ==
    /\ ui.sources[i].browseEnabled
    /\ GlobMatches(path)
    /\ Handler(browseInput(ui, i, path), "",
               RunsProbe([ui EXCEPT !.sources[i].input = path], i))

EditWidth(t) ==
    /\ ui.widthTextField.enable
    /\ Handler(onWidthChanged([ui EXCEPT !.widthTextField.text = t]), "", FALSE)

EditHeight(t) ==
    /\ ui.heightTextField.enable
    /\ Handler(onHeightChanged([ui EXCEPT !.heightTextField.text = t]), "", FALSE)

\* keepProportionsCheckBox has changeCommand=onWidthChanged
ToggleKeepProportions ==
    /\ ui.keepProportionsCheckBox.enable
    /\ Handler(onWidthChanged([ui EXCEPT !.keepProportionsCheckBox.value = ~@]),
               "", FALSE)

EditOutputDir(d) ==
    /\ ui.outputTextField.enable
    /\ Handler([ui EXCEPT !.outputTextField.text = d], "", FALSE)

\* the user picks the existing directory d in the dialog of browseOutput
BrowseOutput(d) ==
    /\ ui.browseOutputButton
    /\ PathExists(d) /\ IsDir(d)
    /\ Handler([ui EXCEPT !.outputTextField.text = d], "", FALSE)

EditFileName(t) ==
    /\ ui.outputFileNameTextField.enable
    /\ Handler([ui EXCEPT !.outputFileNameTextField.text = t], "", FALSE)

SelectDigits(k) ==
    /\ ui.numDigitsMenu.enable
    /\ Handler([ui EXCEPT !.numDigitsMenu.select = k], "", FALSE)

SelectFormat(k) ==
    /\ ui.fileFormatMenu.enable
    /\ Handler(updateUIForFileFormat([ui EXCEPT !.fileFormatMenu.select = k]),
               "", FALSE)

BrowseFFMpeg(cmd) ==
    /\ ui.browseFFMpegButton
    /\ LET s == [ui EXCEPT !.ffmpegTextField = cmd]
       IN  Handler(browseFFMpeg(ui, cmd), checkFFMpegDialog(s),
                   \E i \in 1..Len(s.sources) : RunsProbe(s, i))

\* Settings > Save As...
OnSaveSettings ==
    /\ disk' = [disk EXCEPT !.user = saveSettings(ui)]
    /\ Quiet
    /\ UNCHANGED <<ui, jobs>>

\* Settings > Open... on the file f
OnLoadSettings(f) ==
    Handler(loadSettings(ui, f), "", loadProbes(ui, f))

\* Settings > Clear
OnClearSettings ==
    Handler(resetSettings(ui), "", FALSE)

\* the Convert button while its command is convertMovie
ConvertMovie ==
    /\ ui.convertButton.cancelJob = 0
    /\ IF convertMovieRefusal(ui) = "KeyError"
       THEN /\ dialog' = ""
            /\ probed' = FALSE
            /\ raised' = "KeyError"
            /\ command' = NoCommand
            /\ UNCHANGED <<ui, jobs, disk, py3>>
       ELSE IF convertMovieRefusal(ui) # ""
       THEN Handler(ui, convertMovieRefusal(ui), FALSE)
       ELSE /\ FreeSlots # {}
            /\ LET j == CHOOSE k \in FreeSlots : \A m \in FreeSlots : k <= m
               IN  /\ disk' = [disk EXCEPT !.autosave = saveSettings(ui)]
                   /\ ui' = startedUI(ui, j)
                   /\ jobs' = [jobs EXCEPT ![j] =
                                  Job("start", FALSE, "none", 0, threadArgs(ui))]
            /\ Quiet

\* the Convert button while its command is the `cancel` of a job
Cancel ==
    /\ ui.convertButton.cancelJob # 0
    /\ jobs' = [jobs EXCEPT ![ui.convertButton.cancelJob].cancelEvent = TRUE]
    /\ Quiet
    /\ UNCHANGED <<ui, disk>>

----------------------------------------------------------------------------
(* Steps of a worker thread and of its process *)

\* convertThread up to popen: the command is built and logged, the log file
\* is opened for writing and the process started
WorkerStart(j) ==
    /\ jobs[j].pc = "start"
    /\ IF buildRaises(jobs[j].args)
       THEN /\ jobs' = [jobs EXCEPT ![j].pc = "crashed", ![j].args = NoArgs]
            /\ raised' = "TypeError"
            /\ command' = NoCommand
            /\ UNCHANGED ui
       ELSE /\ jobs' = [jobs EXCEPT ![j].pc = "poll", ![j].proc = "alive",
                                    ![j].args = NoArgs]
            /\ raised' = ""
            /\ command' = buildCommand(jobs[j].args)
            /\ ui' = appendToLog(ui, LogEntry("command", j))
    /\ dialog' = ""
    /\ probed' = FALSE
    /\ UNCHANGED <<disk, py3>>

\* one pass of the loop that does not sleep: lines 750-759
WorkerPoll(j) ==
    /\ jobs[j].pc = "poll"
    /\ pollBranch(jobs[j]) # "sleep"
    /\ IF pollBranch(jobs[j]) = "cancel"
       THEN /\ ui' = endWithCancel(ui)
            /\ jobs' = [jobs EXCEPT ![j].pc = "terminate"]
       ELSE /\ ui' = appendToLog(ui, LogEntry("log", j))
            /\ jobs' = [jobs EXCEPT ![j].pc = "report"]
    /\ Quiet
    /\ UNCHANGED disk

\* lines 760-764: the terminal callback, then the thread returns
WorkerReport(j) ==
    /\ jobs[j].pc = "report"
    /\ LET outcome == terminalCallback(jobs[j].result)
       IN  /\ ui' = IF outcome = "success" THEN endWithSuccess(ui)
                    ELSE endWithFailure(ui)
           /\ dialog' = terminalDialog(outcome)
    /\ jobs' = [jobs EXCEPT ![j] = FreeJob]
    /\ probed' = FALSE
    /\ raised' = ""
    /\ command' = NoCommand
    /\ UNCHANGED <<disk, py3>>

\* line 752: p.terminate(), then the thread returns
WorkerTerminate(j) ==
    /\ jobs[j].pc = "terminate"
    /\ jobs' = [jobs EXCEPT ![j] =
                   IF jobs[j].proc = "alive"
                   THEN [jobs[j] EXCEPT !.pc = "gone", !.proc = "terminating"]
                   ELSE FreeJob]
    /\ Quiet
    /\ UNCHANGED <<ui, disk>>

\* the process ends by itself with exit code `code`
ProcExit(j, code) ==
    /\ jobs[j].proc = "alive"
    /\ jobs' = [jobs EXCEPT ![j].proc = "exited", ![j].result = code]
    /\ Quiet
    /\ UNCHANGED <<ui, disk>>

\* the process dies of the SIGTERM of p.terminate()
ProcDie(j) ==
    /\ jobs[j].proc = "terminating"
    /\ jobs' = [jobs EXCEPT ![j] = FreeJob]
    /\ Quiet
    /\ UNCHANGED <<ui, disk>>

----------------------------------------------------------------------------
(* Specifications *)

Sources == 1..Len(ui.sources)

Slots == 1..MaxJobs

\* the conversion: the Convert/Cancel button, the workers, the processes
Conversion ==
    \/ ConvertMovie
    \/ Cancel
    \/ \E j \in Slots : WorkerStart(j)
    \/ \E j \in Slots : WorkerPoll(j)
    \/ \E j \in Slots : WorkerReport(j)
    \/ \E j \in Slots : WorkerTerminate(j)
    \/ \E j \in Slots, code \in {0, 1} : ProcExit(j, code)
    \/ \E j \in Slots : ProcDie(j)

\* the Settings menu items Open... and Clear
SettingsMenu ==
    \/ \E f \in ExternalFiles : OnLoadSettings(f)
    \/ OnClearSettings

\* The job runner: conversions of the launch state and of what the Settings
\* menu and the size fields make of it
Next ==
    \/ Conversion
    \/ SettingsMenu
    \/ \E t \in {<<>>, <<"3">>} : EditWidth(t)

Spec == Init /\ [][Next]_vars

\* The source list: the job runner with the handlers of the source rows
NextUI ==
    \/ Conversion
    \/ OnLoadSettings(SavedFile)
    \/ OnClearSettings
    \/ AddSource
    \/ \E i \in Sources : Delete(i)
    \/ \E i \in Sources : MoveUp(i)
    \/ \E i \in Sources : MoveDown(i)
    \/ \E i \in Sources, path \in InputPaths : EditInput(i, path)
    \/ \E t \in {<<>>, <<"x">>} : EditWidth(t)

SpecUI == Init /\ [][NextUI]_vars

\* The size fields: every handler that writes the width or the height
NextSize ==
    \/ \E t \in SizeTexts : EditWidth(t)
    \/ \E t \in SizeTexts : EditHeight(t)
    \/ ToggleKeepProportions
    \/ \E i \in Sources, path \in GivenPaths : EditInput(i, path)
    \/ \E i \in Sources, path \in GivenPaths : BrowseInput(i, path)
    \/ AddSource
    \/ SettingsMenu

SpecSize == Init /\ [][NextSize]_vars

\* The job runner with its threads scheduled: a thread that can take its
\* next step (the main thread is free between two handlers) takes it
Fairness ==
    \A j \in Slots :
        /\ WF_vars(WorkerStart(j))
        /\ WF_vars(WorkerPoll(j))
        /\ WF_vars(WorkerReport(j))
        /\ WF_vars(WorkerTerminate(j))

SpecFair == Spec /\ Fairness

\* The command builder: the form is filled in (sources with and without
\* audio, every format and digit count), Convert is clicked and the worker
\* builds the command
NextBuild ==
    \/ AddSource
    \/ \E i \in Sources, path \in BuildPaths : EditInput(i, path)
    \/ \E k \in 1..Len(FILE_FORMATS) : SelectFormat(k)
    \/ \E k \in 1..NumDigitsItems : SelectDigits(k)
    \/ EditOutputDir("out")
    \/ ConvertMovie
    \/ \E j \in Slots : WorkerStart(j)

SpecBuild == Init /\ [][NextBuild]_vars

\* The settings store: the form is edited, saved with Settings > Save As...,
\* cleared or edited again, and the saved file opened with Settings > Open...
NextSettings ==
    \/ AddSource
    \/ \E i \in Sources : EditInput(i, "b.mp4")
    \/ EditWidth(<<>>)
    \/ EditFileName(<<" ", "o">>)
    \/ SelectFormat(3)
    \/ OnSaveSettings
    \/ (disk.user.exists /\ OnLoadSettings(disk.user))
    \/ OnClearSettings

SpecSettings == Init /\ [][NextSettings]_vars

\* The property probe: input paths are given to the rows, each is probed
NextProbe ==
    \/ AddSource
    \/ \E i \in Sources, path \in ProbePaths : EditInput(i, path)
    \/ \E i \in Sources, path \in ProbePaths : BrowseInput(i, path)
    \/ \E i \in Sources : MoveUp(i)

SpecProbe == Init /\ [][NextProbe]_vars

\* The format menu: the format is changed, the settings are cleared and
\* opened, and jobs run to their end or are cancelled
NextFormat ==
    \/ Conversion
    \/ \E k \in 1..Len(FILE_FORMATS) : SelectFormat(k)
    \/ OnLoadSettings(SavedFile)
    \/ OnClearSettings

SpecFormat == Init /\ [][NextFormat]_vars

----------------------------------------------------------------------------
(* State predicates the claims use *)

\* the window is in the Running state: the button is the Cancel button
Running(s) == s.convertButton.label = "Cancel"

Range(q) == {q[i] : i \in 1..Len(q)}

\* every control setEditableUIEnabled(False) disables is enabled again (the
\* frame-digit menu when the format is an image sequence)
EditableEnabled(s) ==
    /\ s.addSourceButton
    /\ \A i \in 1..Len(s.sources) :
          /\ s.sources[i].browseEnabled
          /\ s.sources[i].inputEnabled
          /\ s.sources[i].moveUpEnabled
          /\ s.sources[i].moveDownEnabled
          /\ s.sources[i].deleteEnabled
    /\ s.osRadioGroup
    /\ s.browseFFMpegButton
    /\ s.browseOutputButton
    /\ s.outputTextField.enable
    /\ s.widthTextField.enable
    /\ s.heightTextField.enable
    /\ s.keepProportionsCheckBox.enable
    /\ s.outputFileNameTextField.enable
    /\ s.fileFormatMenu.enable
    /\ s.numDigitsMenu.enable = ~FILE_FORMATS[s.fileFormatMenu.select].is_movie

\* one of the validation failures of convertMovie holds of the window
ValidationFails(s) ==
    \/ \E i \in 1..Len(s.sources) :
          s.sources[i].input = "" \/ ~GlobMatches(s.sources[i].input)
    \/ s.outputTextField.text = ""
    \/ ~PathExists(s.outputTextField.text)
    \/ ~IsDir(s.outputTextField.text)
    \/ parseOutputSize(s) = FalseSize
    \/ Len(strip(s.outputFileNameTextField.text)) = 0

----------------------------------------------------------------------------
(* Claims *)

\* C1: at most one conversion process is alive at any time: no second
\* process is spawned while one spawned earlier may still be alive.
C1_OneProcessAtATime ==
    Cardinality({j \in Slots : ProcAlive(jobs[j])}) <= 1

\* C2: while the window is Running no step changes the job specification
\* (source list, input paths, output settings) and no step runs a probe.
C2_RunningFreezesJob ==
    [][Running(ui) => (saveSettings(ui') = saveSettings(ui) /\ ~probed')]_vars

\* C3: no started job leaves the window stuck in Running: while the window
\* is Running, the worker that will run the terminal callback is alive.
C3_RunningHasWorker ==
    Running(ui) => \E j \in Slots : jobs[j].pc \in {"start", "poll", "report"}

\* C4: a worker that sees the process exited on a pass where the cancel
\* event is not set first appends the process log to the output log, then
\* runs endWithSuccess if the exit code is 0 and endWithFailure otherwise.
C4_ExitShowsLogThenReports ==
    [][\A j \in Slots :
          /\ (/\ jobs[j].pc = "poll"
              /\ ~jobs[j].cancelEvent
              /\ jobs[j].proc = "exited"
              /\ jobs'[j].pc # "poll")
             => /\ jobs'[j].pc = "report"
                /\ ui'.outputLog = Append(ui.outputLog, LogEntry("log", j))
                /\ Running(ui')
                /\ dialog' = ""
          /\ (jobs[j].pc = "report" /\ jobs'[j].pc # "report")
             => /\ LogEntry("log", j) \in Range(ui'.outputLog)
                /\ ~Running(ui')
                /\ EditableEnabled(ui')
                /\ dialog' = IF jobs[j].result = 0 THEN "Conversion successful"
                             ELSE "Error: Conversion failed"]_vars

\* C4 witness: a failed conversion was reported, its log is in the output log
C4_Witness ==
    /\ dialog = "Error: Conversion failed"
    /\ ui.outputLog # <<>>
    /\ ui.outputLog[Len(ui.outputLog)].kind = "log"
    /\ ~Running(ui)

\* C5: a worker in its loop whose cancel event is set ends the job as
\* Cancelled on its next pass: endWithCancel re-enables the controls, the
\* process is asked to terminate, and no step of that job shows a dialog.
C5_CancelAtNextTick ==
    [][\A j \in Slots :
          /\ (jobs[j].pc = "poll" /\ jobs[j].cancelEvent /\ jobs'[j].pc # "poll")
             => /\ jobs'[j].pc = "terminate"
                /\ ~Running(ui')
                /\ EditableEnabled(ui')
                /\ dialog' = ""
          /\ (jobs[j].pc = "terminate" /\ jobs'[j].pc # "terminate")
             => /\ jobs[j].proc = "alive" => jobs'[j].proc = "terminating"
                /\ jobs'[j].pc \in {"gone", "free"}
          /\ (jobs[j].pc \in {"terminate", "gone"} /\ jobs'[j] # jobs[j])
             => dialog' = ""]_vars
    /\ \A j \in Slots :
          (jobs[j].pc = "poll" /\ jobs[j].cancelEvent) ~> (jobs[j].pc # "poll")

\* C5 witness: a cancelled job whose process was asked to terminate, the
\* controls enabled again
C5_Witness ==
    \E j \in Slots :
        /\ jobs[j].pc = "gone"
        /\ jobs[j].cancelEvent
        /\ jobs[j].proc = "terminating"
        /\ EditableEnabled(ui)

\* C6: the step in which a worker observes the cancellation appends the
\* process log read so far to the output log.
C6_CancelShowsLog ==
    [][\A j \in Slots :
          (jobs[j].pc = "poll" /\ jobs'[j].pc = "terminate")
             => LogEntry("log", j) \in Range(ui'.outputLog)]_vars

\* C7: convertThread is never started with outputSize None.
C7_OutputSizeDefined ==
    \A j \in Slots : jobs[j].pc = "start" => jobs[j].args.outputSize # NoneSize

\* C8: a convertMovie that meets a validation failure shows a dialog and
\* changes nothing: no thread, no autosave, the window as it was.
C8_ValidationFailureShowsDialog ==
    [][(ConvertMovie /\ ValidationFails(ui))
          => (dialog' # "" /\ UNCHANGED <<ui, jobs, disk>>)]_vars

\* C9: the source list always holds at least one source.
C9_AtLeastOneSource == Len(ui.sources) >= 1

\* C10: whenever parseOutputSize() returns a pair, both numbers are even.
C10_OutputSizeEven ==
    parseOutputSize(ui).tag = "Pair"
        => parseOutputSize(ui).w % 2 = 0 /\ parseOutputSize(ui).h % 2 = 0

\* the width field holds text that is not a number (and is not blank)
WidthNonNumeric(s) ==
    /\ Len(strip(s.widthTextField.text)) > 0
    /\ ~int(strip(s.widthTextField.text)).ok

\* the checks convertMovie makes before it looks at the size all pass
ValidBeforeSize(s) ==
    /\ isValidCommand(s.ffmpegTextField)
    /\ checkSources(s, 1) = ""
    /\ s.outputTextField.text # ""
    /\ PathExists(s.outputTextField.text)
    /\ IsDir(s.outputTextField.text)

\* C11: whenever the width field holds non-numeric text, whatever the height
\* field holds, parseOutputSize() returns False (never None), and a click on
\* Convert starts no job and, when the earlier checks pass, shows the
\* 'Invalid width/height' dialog.
C11_NonNumericWidthIsFailure ==
    [][WidthNonNumeric(ui) =>
          /\ parseOutputSize(ui) = FalseSize
          /\ ConvertMovie =>
                /\ UNCHANGED jobs
                /\ ValidBeforeSize(ui) => dialog' = "Error: Invalid width/height"]_vars

\* the worker of slot j builds its command in this step
Builds(j) == jobs[j].pc = "start" /\ jobs'[j].pc = "poll"

\* at least two sources, exactly one of them without audio
OneSourceLacksAudio(args) ==
    /\ Len(args.inputSources) >= 2
    /\ Cardinality({i \in 1..Len(args.inputSources) :
                       ~args.inputSources[i].hasAudioStream}) = 1

\* the places of the silence inputs among the inputs of the command c
SilenceInputs(c) == {k \in 1..Len(c.inputs) : c.inputs[k].lavfi}

\* the concat clauses of the command c
ConcatClauses(c) ==
    {k \in 1..Len(c.filterGraph) : c.filterGraph[k].filter = "concat"}

\* how many input labels of the concat clauses of c are the audio of input idx
AudioReferences(c, idx) ==
    Cardinality({<<k, m>> \in ConcatClauses(c) \X (1..(2 * Len(c.inputs))) :
                    /\ m <= Len(c.filterGraph[k].ins)
                    /\ c.filterGraph[k].ins[m] = InputAudio(idx)})

\* one silence input, after the n sources (its index is n), referenced once
OneSilenceInput(c, n) ==
    /\ SilenceInputs(c) = {n + 1}
    /\ \A k \in 1..n : c.inputs[k].path # "anullsrc"
    /\ AudioReferences(c, n) = 1

\* C12 as stated: for every source list of length >= 2 in which exactly one
\* source lacks audio, and for every output format, the built command has
\* exactly one silence input, placed after all the sources (index = number
\* of sources) and referenced exactly once in the concat clause.
C12_OneSilenceInputAnyFormat ==
    [][\A j \in Slots :
          (Builds(j) /\ OneSourceLacksAudio(jobs[j].args))
          => OneSilenceInput(command', Len(jobs[j].args.inputSources))]_vars

\* C12 amended: the same for the movie formats (MP4, AVI); for the image
\* formats (PNG, JPEG) the command has no silence input and its concat clause
\* no audio label.
C12_OneSilenceInputMovieFormats ==
    [][\A j \in Slots :
          (Builds(j) /\ OneSourceLacksAudio(jobs[j].args))
          => LET n == Len(jobs[j].args.inputSources)
             IN  IF isFileExtensionForMovie(jobs[j].args.fileExtension)
                 THEN OneSilenceInput(command', n)
                 ELSE /\ SilenceInputs(command') = {}
                      /\ \A idx \in 0..n : AudioReferences(command', idx) = 0]_vars

\* a built MP4 or AVI command of two sources with the silence input
C12_Witness ==
    /\ Len(command.inputs) = 3
    /\ command.inputs[3] = NullAudioInput
    /\ AudioReferences(command, 2) = 1

\* the scale clauses of the command c
ScaleClauses(c) ==
    {k \in 1..Len(c.filterGraph) : c.filterGraph[k].filter = "scale"}

\* C13: the built filter graph has a concat clause iff there are at least
\* two sources.  One source: no concat clause, no '-vsync 2', one scale
\* clause from [0:v] to [v].  n >= 2 sources: exactly n scale clauses, from
\* [i:v] to [vs i] for each source i, exactly one concat clause, with n = the
\* number of sources, and '-vsync 2'.
C13_ConcatIffSeveralSources ==
    [][\A j \in Slots :
          Builds(j)
          => LET n == Len(jobs[j].args.inputSources)
                 c == command'
             IN  IF n < 2
                 THEN /\ ConcatClauses(c) = {}
                      /\ ~c.vsync
                      /\ Cardinality(ScaleClauses(c)) = 1
                      /\ \A k \in ScaleClauses(c) :
                            /\ c.filterGraph[k].ins = <<InputVideo(0)>>
                            /\ c.filterGraph[k].outs = <<Named(<<"v">>)>>
                 ELSE /\ Cardinality(ScaleClauses(c)) = n
                      /\ \A i \in 0..(n - 1) :
                            \E k \in ScaleClauses(c) :
                               /\ c.filterGraph[k].ins = <<InputVideo(i)>>
                               /\ c.filterGraph[k].outs =
                                     <<[idx |-> str(i), name |-> <<"v", "s">>]>>
                      /\ Cardinality(ConcatClauses(c)) = 1
                      /\ \A k \in ConcatClauses(c) :
                            c.filterGraph[k].params.n = str(n)
                      /\ c.vsync]_vars

\* a built command of two sources: two scale clauses and the concat clause
C13_Witness ==
    /\ Len(command.inputs) >= 2
    /\ ~command.inputs[2].lavfi
    /\ Cardinality(ScaleClauses(command)) = 2
    /\ Cardinality(ConcatClauses(command)) = 1
    /\ command.vsync

\* one source, with audio, MP4 output, and the size of the source as the
\* output size (what resetOutputMovieSize puts into the fields)
SingleAudioSourceToMp4(args) ==
    /\ Len(args.inputSources) = 1
    /\ args.inputSources[1].hasAudioStream
    /\ args.fileExtension = "mp4"
    /\ LET r == getMovieProperties(args.inputSources[1].input)
       IN  r.ok /\ args.outputSize = Pair(r.w, r.h)

\* option is followed by value in the encoder arguments of the command c
EncoderOption(c, option, value) ==
    \E k \in 1..(Len(c.encoder) - 1) :
        c.encoder[k] = option /\ c.encoder[k + 1] = value

\* the command c writes '<name>.mp4' in the output directory with H.264
\* video and AAC audio and has no concat clause
Mp4Target(c, args) ==
    /\ c.output = <<args.outputDir, "/">> \o args.outputFileName \o <<".", "mp4">>
    /\ EncoderOption(c, "-c:v", "libx264")
    /\ EncoderOption(c, "-c:a", "aac")
    /\ ConcatClauses(c) = {}

\* C14 as stated: for a single source with audio, MP4 output and the
\* source's native size, the built command targets '<name>.mp4' in the output
\* directory, uses libx264 and aac, has no concat clause, and its -map
\* arguments are exactly '[v]' and '[a]'.
C14_SingleMp4MapsVA ==
    [][\A j \in Slots :
          (Builds(j) /\ SingleAudioSourceToMp4(jobs[j].args))
          => /\ Mp4Target(command', jobs[j].args)
             /\ command'.maps = <<[idx |-> <<>>, name |-> <<"v">>],
                                  [idx |-> <<>>, name |-> <<"a">>]>>]_vars

\* C14 amended: the same, but the -map arguments are exactly '[vv]' and
\* '[a]', where [vv] is the output of the clause '[v] format=yuv420p [vv]'
\* that ends the filter graph of an MP4 command.
C14_SingleMp4MapsVVA ==
    [][\A j \in Slots :
          (Builds(j) /\ SingleAudioSourceToMp4(jobs[j].args))
          => /\ Mp4Target(command', jobs[j].args)
             /\ command'.maps = <<[idx |-> <<>>, name |-> <<"v", "v">>],
                                  [idx |-> <<>>, name |-> <<"a">>]>>
             /\ LET last == command'.filterGraph[Len(command'.filterGraph)]
                IN  /\ last.filter = "format=yuv420p"
                    /\ last.ins = <<[idx |-> <<>>, name |-> <<"v">>]>>
                    /\ last.outs = <<[idx |-> <<>>, name |-> <<"v", "v">>]>>]_vars

\* a built MP4 command of the single source a.mp4 at its own size 4x2
C14_Witness ==
    /\ Len(command.inputs) = 1
    /\ command.inputs[1].path = "a.mp4"
    /\ command.output # <<>>
    /\ command.output[Len(command.output)] = "mp4"
    /\ Len(command.maps) = 2
    /\ command.filterGraph[1].params.w = <<"4">>
    /\ command.filterGraph[1].params.h = <<"2">>

\* the job writes an image sequence (PNG or JPEG) with 1 to 4 frame digits
ImageSequenceJob(args) ==
    /\ ~isFileExtensionForMovie(args.fileExtension)
    /\ args.frameNumDigits \in 1..NumDigitsItems

\* the command c has none of the encoder override flags
NoEncoderOverride(c) ==
    \A k \in 1..Len(c.encoder) :
        c.encoder[k] \notin {"-c:v", "-c:a", "-pix_fmt", "-movflags"}

\* C15 as stated: for PNG and JPEG and every digit count d in 1..4, the last
\* argument of the built command is the output directory joined with
\* '<baseName>.%0<d>d.<ext>' ('<name>.%04d.png' for d = 4 and PNG), and no
\* encoder override flag (-c:v, -c:a, -pix_fmt, -movflags) is emitted.
C15_ZeroFlagPattern ==
    [][\A j \in Slots :
          (Builds(j) /\ ImageSequenceJob(jobs[j].args))
          => /\ command'.output =
                   <<jobs[j].args.outputDir, "/">> \o jobs[j].args.outputFileName
                   \o <<".", "%", "0">> \o str(jobs[j].args.frameNumDigits)
                   \o <<"d", ".", jobs[j].args.fileExtension>>
             /\ NoEncoderOverride(command')]_vars

\* C15 amended: the pattern is '<baseName>.%<d>d.<ext>', the digit count
\* without a '0' flag before it ('<name>.%4d.png' for d = 4 and PNG); no
\* encoder override flag is emitted.
C15_WidthOnlyPattern ==
    [][\A j \in Slots :
          (Builds(j) /\ ImageSequenceJob(jobs[j].args))
          => /\ command'.output =
                   <<jobs[j].args.outputDir, "/">> \o jobs[j].args.outputFileName
                   \o <<".", "%">> \o str(jobs[j].args.frameNumDigits)
                   \o <<"d", ".", jobs[j].args.fileExtension>>
             /\ NoEncoderOverride(command')]_vars

\* a built JPEG command with 2 frame digits
C15_Witness ==
    /\ command.output # <<>>
    /\ command.output[Len(command.output)] = "jpg"
    /\ \E k \in 1..(Len(command.output) - 2) :
          /\ command.output[k] = "%"
          /\ command.output[k + 1] = "2"
          /\ command.output[k + 2] = "d"

\* the job specification the window s holds
JobSpec(s) ==
    [inputSources   |-> [i \in 1..Len(s.sources) |-> s.sources[i].input],
     outputSize     |-> parseOutputSize(s),
     outputFileName |-> strip(s.outputFileNameTextField.text),
     frameNumDigits |-> s.numDigitsMenu.select,
     fileFormat     |-> s.fileFormatMenu.select]

\* windows a saved file is loaded into: the one that saved it, that window
\* after Settings > Clear, and the window of a launch that found SavedFile
LoadTargets(s) == {s, resetSettings(s), run(s.ffmpegTextField, SavedFile)}

\* C16: settings round trip.  For every window S, saveSettings in S followed
\* by loadSettings of the saved file into a window in any state gives a
\* window whose job specification equals that of S in every field: source
\* paths in order, output size as parseOutputSize() returns it (None
\* included), file name, frame digits, file format.
C16_SettingsRoundTrip ==
    [][(OnSaveSettings /\ disk'.user = saveSettings(ui))
       => \A target \in LoadTargets(ui) :
             JobSpec(loadSettings(target, disk'.user)) = JobSpec(ui)]_vars

\* this step opens the log file for writing: a probe (getMovieProperties,
\* line 116) or the start of a conversion (convertThread, line 746)
OpensLogForWriting ==
    \/ probed'
    \/ \E k \in Slots : jobs[k].proc = "none" /\ jobs'[k].proc = "alive"

\* C17: the shared log file has at most one writer at any time: while a
\* conversion process started by convertThread is still alive (writing its
\* output to the file), no probe and no second conversion opens the file
\* for writing.
C17_LogFileSingleWriter ==
    [][(\E j \in Slots : ProcAlive(jobs[j])) => ~OpensLogForWriting]_vars

\* the command c has a '-map' of the audio label '[a]'
HasAudioMap(c) ==
    \E k \in 1..Len(c.maps) : c.maps[k] = [idx |-> <<>>, name |-> <<"a">>]

\* C18: audio plan of the command builder, for every source list and
\* format: the command has an audio '-map' iff the format is a movie format
\* (MP4, AVI) and at least one source has audio; it has the silence input
\* iff, in addition, at least one source lacks audio.  In particular two or
\* more sources without any audio give neither an audio '-map' nor a silence
\* input.
C18_AudioPlan ==
    [][\A j \in Slots :
          Builds(j)
          => LET src == jobs[j].args.inputSources
                 movie == jobs[j].args.fileExtension \in {"mp4", "avi"}
                 someAudio == \E i \in 1..Len(src) : src[i].hasAudioStream
                 someSilent == \E i \in 1..Len(src) : ~src[i].hasAudioStream
             IN  /\ HasAudioMap(command') <=> (movie /\ someAudio)
                 /\ (SilenceInputs(command') # {})
                       <=> (movie /\ someAudio /\ someSilent)]_vars

\* a built MP4 command of two sources without audio: one -map, no silence
C18_Witness ==
    /\ Len(command.inputs) = 2
    /\ command.inputs[1].path = "b.mp4"
    /\ command.inputs[2].path = "b.mp4"
    /\ command.output[Len(command.output)] = "mp4"
    /\ ~HasAudioMap(command)
    /\ SilenceInputs(command) = {}

\* the lines of a log with a 'Video:' marker and a parseable WxH
VideoLines(lines) ==
    {k \in 1..Len(lines) : lines[k].video >= 0 /\ lines[k].dims # <<>>}

\* some line of the log has an 'Audio:' marker
AudioLine(lines) == \E k \in 1..Len(lines) : lines[k].audio >= 0

\* C19: for every log of a probe that exited with code 0, getMovieProperties
\* fails iff no line has a 'Video:' marker with a parseable WxH; otherwise
\* the size is that of the last such line and hasAudioStream is true iff some
\* line has an 'Audio:' marker, wherever in the log and in the line the
\* markers stand.  (Stated of the properties kept in the source row.)
C19_ProbeParsing ==
    \A i \in Sources :
       LET source == ui.sources[i]
           lines  == ProbeLog(source.input)
           last   == Max(VideoLines(lines))
       IN  (RunsProbe(ui, i) /\ ProbeExit(source.input) = 0)
           => IF VideoLines(lines) = {}
              THEN source.size = NoneSize /\ source.hasAudioStream = "None"
              ELSE /\ source.size = Pair(NormalizeEven(lines[last].dims[1]),
                                         NormalizeEven(lines[last].dims[2]))
                   /\ source.hasAudioStream =
                         (IF AudioLine(lines) THEN "True" ELSE "False")

\* C20: cancellation has priority over completion.  On a poll tick at which
\* the cancel event is set the job ends as Cancelled (endWithCancel only),
\* also when the process has already exited, with exit code 0 or not: the
\* process log is not displayed and no success or failure dialog is shown,
\* at the tick or when the thread ends.  Success or failure is reported only
\* from a tick at which the cancel event is not set.
C20_CancelBeforeCompletion ==
    [][\A j \in Slots :
          /\ (jobs[j].pc = "poll" /\ jobs'[j].pc # "poll")
             => IF jobs[j].cancelEvent
                THEN /\ jobs'[j].pc = "terminate"
                     /\ ui' = endWithCancel(ui)
                     /\ ui'.outputLog = ui.outputLog
                     /\ dialog' = ""
                ELSE /\ jobs[j].proc = "exited"
                     /\ jobs'[j].pc = "report"
          /\ (jobs[j].pc = "terminate" /\ jobs'[j].pc # "terminate")
             => /\ jobs'[j].pc \in {"gone", "free"}
                /\ ui'.outputLog = ui.outputLog
                /\ dialog' = ""]_vars

\* a job ended as Cancelled although its process had exited with code 0:
\* the log area holds the command line only
C20_Witness ==
    \E j \in Slots :
        /\ jobs[j].pc = "terminate"
        /\ jobs[j].proc = "exited"
        /\ jobs[j].result = 0
        /\ ~Running(ui)
        /\ \A k \in 1..Len(ui.outputLog) : ui.outputLog[k].kind # "log"


\* C21: in every Idle state (the button is the Convert button), after any
\* sequence of format changes, Settings > Clear, Settings > Open... and
\* completed or cancelled jobs, the frame-digit menu is enabled if and only
\* if the selected output format is an image-sequence format (PNG or JPEG).
C21_DigitsMenuFollowsFormat ==
    ~Running(ui) =>
        (ui.numDigitsMenu.enable
            <=> FILE_FORMATS[ui.fileFormatMenu.select].name \in {"PNG", "JPEG"})

=============================================================================
